---- MODULE Spec2Model ----
(***************************************************************************)
(* SeqDistanceSelfAttention (mylayers/distance_self_attention1.py).        *)
(*                                                                         *)
(* The layer is modelled through one use of it: construction, the round    *)
(* trip through get_config, build, and one call.  Real numbers are kept in *)
(* fixed point, in thousandths (Scale units per 1.0); the attention        *)
(* weights are kept as exact fractions num/den.  The emission scores,      *)
(* which depend on learned weights, are drawn from a bounded family.       *)
(***************************************************************************)
EXTENDS Integers, Naturals, Sequences, FiniteSets, TLC

VARIABLES
    pc,           \* where the use of the layer stands
    ctor_args,    \* the arguments the constructor was given, or None
    layer,        \* the layer's attributes, or None
    raised,       \* the exception that left the constructor, or ""
    layer2,       \* the layer rebuilt from get_config(), or None
    input_shape,  \* the shape build was given, or None
    weights,      \* the shapes of the weights build added
    locals        \* the locals of call when it returned or raised

vars == <<pc, ctor_args, layer, raised, layer2, input_shape, weights, locals>>

(* ------------------------------ bounds -------------------------------- *)

\* widest attention_width drawn (besides None)
MaxWidth == 3
\* largest batch size drawn
MaxBatch == 2
\* input lengths drawn: 1..MaxShortLen, and sl
MaxShortLen == 3
\* mask patterns drawn: 0..MaxMaskSeed
MaxMaskSeed == 1

(* ------------------------- Python values ------------------------------ *)

\* Optional values: None is the empty tuple, a value x is <<x>>.
None == <<>>
Some(x) == <<x>>
IsNone(o) == o = <<>>
Get(o) == o[1]

\* A Python value that may or may not be a str, with its text.
PyStr(s) == [type |-> "str", val |-> s]
PyNone == [type |-> "NoneType", val |-> "None"]

\* fixed point: Scale units per 1.0
Scale == 10 * 10 * 10

Abs(x) == IF x < 0 THEN -x ELSE x
Max2(x, y) == IF x < y THEN y ELSE x

(* ----------------------------- tensors -------------------------------- *)

\* A rank-3 tensor is [shape |-> <<b, r, c>>, val |-> entries], 0-based:
\* val[n][i][j] for batch element n, row i, column j.
Idx(dim) == 0..(dim - 1)

\* Broadcasting of two shapes: each dimension equal, or one of them 1.
Broadcastable(s1, s2) ==
    \A k \in 1..3 : s1[k] = s2[k] \/ s1[k] = 1 \/ s2[k] = 1

BShape(s1, s2) == [k \in 1..3 |-> Max2(s1[k], s2[k])]

\* The index into a dimension of size dim that broadcasting gives index i.
BIdx(dim, i) == IF dim = 1 THEN 0 ELSE i

\* x + y and x - y, elementwise with broadcasting (used when Broadcastable).
Add(x, y) ==
    LET s == BShape(x.shape, y.shape)
    IN  [shape |-> s,
         val |-> [n \in Idx(s[1]) |->
                    LET xn == x.val[BIdx(x.shape[1], n)]
                        yn == y.val[BIdx(y.shape[1], n)]
                    IN  [i \in Idx(s[2]) |->
                           LET xi == xn[BIdx(x.shape[2], i)]
                               yi == yn[BIdx(y.shape[2], i)]
                           IN  [j \in Idx(s[3]) |->
                                  xi[BIdx(x.shape[3], j)] + yi[BIdx(y.shape[3], j)]]]]]

Sub(x, y) ==
    LET s == BShape(x.shape, y.shape)
    IN  [shape |-> s,
         val |-> [n \in Idx(s[1]) |->
                    LET xn == x.val[BIdx(x.shape[1], n)]
                        yn == y.val[BIdx(y.shape[1], n)]
                    IN  [i \in Idx(s[2]) |->
                           LET xi == xn[BIdx(x.shape[2], i)]
                               yi == yn[BIdx(y.shape[2], i)]
                           IN  [j \in Idx(s[3]) |->
                                  xi[BIdx(x.shape[3], j)] - yi[BIdx(y.shape[3], j)]]]]]

\* tf.tile(K.expand_dims(m, 0), [bs, 1, 1]) of a matrix m with r rows, c columns
Tile0(m, bs, r, c) ==
    [shape |-> <<bs, r, c>>,
     val |-> [n \in Idx(bs) |-> [i \in Idx(r) |-> [j \in Idx(c) |-> m[i][j]]]]]

(* ------------------------- class constants --------------------------- *)

ATTENTION_TYPE_ADD == PyStr("additive")
ATTENTION_TYPE_MUL == PyStr("multiplicative")

\* the sequence length call builds its distance mask for
sl == 15

\* the penalty of a position outside the window, of a masked position, and
\* of the diagonal of the distance mask
PENALTY == 10000

(* ------------------------- distance mask ------------------------------ *)

\* math.log(d), math.exp(d), 1/(1+math.exp(d)) and math.tanh(d) for
\* d = 1..sl-1, in thousandths, rounded to the nearest.
LogTable ==
    <<0, 693, 1099, 1386, 1609, 1792, 1946, 2079, 2197, 2303, 2398, 2485, 2565, 2639>>
ExpTable ==
    <<2718, 7389, 20086, 54598, 148413, 403429, 1096633, 2980958, 8103084,
      22026466, 59874142, 162754791, 442413392, 1202604284>>
SigmoidTable ==
    <<269, 119, 47, 18, 7, 2, 1, 0, 0, 0, 0, 0, 0, 0>>
TanhTable ==
    <<762, 964, 995, 999, 1000, 1000, 1000, 1000, 1000, 1000, 1000, 1000, 1000, 1000>>

DISTANCES == {"linear", "log", "exp", "mydistance", "sigmoid", "tanh"}

\* distance_entry with the abs() of the 'linear' branch left out
distance_entry_signed(dist, i, j) ==
    IF i = j THEN -(PENALTY * Scale)
    ELSE CASE dist = "linear" -> -((j - i) * Scale)
           [] dist = "log" -> -LogTable[Abs(j - i)]
           [] dist = "exp" -> -ExpTable[Abs(j - i)]
           [] dist = "mydistance" ->
                IF Abs(i - j) > 1 THEN -(Abs(j - i) * Scale) ELSE 0
           [] dist = "sigmoid" ->
                IF Abs(i - j) > 1 THEN -SigmoidTable[Abs(j - i)] ELSE 0
           [] dist = "tanh" ->
                IF Abs(i - j) > 1 THEN -TanhTable[Abs(j - i)] ELSE 0

\* distance_mask[i][j] of the branch for attention_distance = dist, in
\* thousandths; sl_col[i][j] - sl_row[i][j] is j - i.  The array starts as
\* np.zeros, so an entry no branch assigns stays 0.
distance_entry(dist, i, j) ==
    IF i = j THEN -(PENALTY * Scale)
    ELSE CASE dist = "linear" -> -(Abs(j - i) * Scale)
           [] dist = "log" -> -LogTable[Abs(j - i)]
           [] dist = "exp" -> -ExpTable[Abs(j - i)]
           [] dist = "mydistance" ->
                IF Abs(i - j) > 1 THEN -(Abs(j - i) * Scale) ELSE 0
           [] dist = "sigmoid" ->
                IF Abs(i - j) > 1 THEN -SigmoidTable[Abs(j - i)] ELSE 0
           [] dist = "tanh" ->
                IF Abs(i - j) > 1 THEN -TanhTable[Abs(j - i)] ELSE 0

\* The [sl, sl] array the if/elif chain leaves in distance_mask; no branch
\* assigns it for an attention_distance outside DISTANCES (None here).
distance_mask(dist) ==
    IF dist \in DISTANCES
    THEN Some([i \in Idx(sl) |-> [j \in Idx(sl) |-> distance_entry(dist, i, j)]])
    ELSE None

(* --------------------------- constructor ------------------------------ *)

\* keras.activations.get: None gives the linear function, a name the
\* function of that name; keras.activations.serialize gives the name back.
activations_get(name) ==
    IF IsNone(name) THEN [fn |-> "linear"] ELSE [fn |-> Get(name)]

activations_serialize(f) == f.fn

\* The defaults of the constructor's signature.  The initializer,
\* regularizer and constraint arguments are handed to Keras unchanged and
\* are left out.
Defaults ==
    [units |-> 32,
     attention_width |-> None,
     attention_type |-> ATTENTION_TYPE_ADD,
     return_attention |-> FALSE,
     history_only |-> FALSE,
     use_additive_bias |-> TRUE,
     use_attention_bias |-> TRUE,
     attention_activation |-> None,
     attention_distance |-> "linear",
     attention_regularizer_weight |-> 0]

\* 'No implementation for attention type : ' + attention_type, the argument
\* of the raise: str + str is a str, str + anything else is a TypeError.
\* Gives the exception that leaves the constructor.
raise_not_implemented(attention_type) ==
    IF attention_type.type = "str" THEN "NotImplementedError" ELSE "TypeError"

\* __init__: [raised |-> the exception's name or "", self |-> the layer or None]
init(args) ==
    LET self ==
            [units |-> args.units,
             attention_width |->
                 IF args.history_only /\ IsNone(args.attention_width)
                 THEN Some(1000000000) ELSE args.attention_width,
             attention_type |-> args.attention_type,
             return_attention |-> args.return_attention,
             history_only |-> args.history_only,
             use_additive_bias |-> args.use_additive_bias,
             use_attention_bias |-> args.use_attention_bias,
             attention_distance |-> args.attention_distance,
             attention_activation |-> activations_get(args.attention_activation),
             attention_regularizer_weight |-> args.attention_regularizer_weight]
    IN  IF args.attention_type = ATTENTION_TYPE_ADD
        THEN [raised |-> "", self |-> Some(self)]
        ELSE IF args.attention_type = ATTENTION_TYPE_MUL
        THEN [raised |-> "", self |-> Some(self)]
        ELSE [raised |-> raise_not_implemented(args.attention_type), self |-> None]

\* get_config: the dictionary of the layer's own entries
get_config(self) ==
    [units |-> self.units,
     attention_width |-> self.attention_width,
     attention_type |-> self.attention_type,
     return_attention |-> self.return_attention,
     history_only |-> self.history_only,
     use_additive_bias |-> self.use_additive_bias,
     use_attention_bias |-> self.use_attention_bias,
     attention_activation |-> Some(activations_serialize(self.attention_activation)),
     attention_regularizer_weight |-> self.attention_regularizer_weight]

\* cls(**config): each parameter takes the dictionary's entry, or its default
Arg(config, k) == IF k \in DOMAIN config THEN config[k] ELSE Defaults[k]

from_config(config) ==
    init([units |-> Arg(config, "units"),
          attention_width |-> Arg(config, "attention_width"),
          attention_type |-> Arg(config, "attention_type"),
          return_attention |-> Arg(config, "return_attention"),
          history_only |-> Arg(config, "history_only"),
          use_additive_bias |-> Arg(config, "use_additive_bias"),
          use_attention_bias |-> Arg(config, "use_attention_bias"),
          attention_activation |-> Arg(config, "attention_activation"),
          attention_distance |-> Arg(config, "attention_distance"),
          attention_regularizer_weight |-> Arg(config, "attention_regularizer_weight")])

(* ------------------------------- build -------------------------------- *)

\* The weights build adds, each by its shape; None when not added.
build(self, shape) ==
    LET feature_dim == shape[3]
        ba == IF self.use_attention_bias THEN Some(<<1>>) ELSE None
    IN  IF self.attention_type = ATTENTION_TYPE_ADD
        THEN [Wt |-> Some(<<feature_dim, self.units>>),
              Wx |-> Some(<<feature_dim, self.units>>),
              bh |-> IF self.use_additive_bias THEN Some(<<self.units>>) ELSE None,
              Wa |-> Some(<<self.units, 1>>),
              ba |-> ba]
        ELSE [Wt |-> None, Wx |-> None, bh |-> None,
              Wa |-> Some(<<feature_dim, feature_dim>>),
              ba |-> ba]

NoWeights == [Wt |-> None, Wx |-> None, bh |-> None, Wa |-> None, ba |-> None]

(* -------------------------------- call -------------------------------- *)

\* The emission scores depend on the inputs and on the learned weights; they
\* are drawn from a family of patterns of finite scores, in thousandths.
Score(seed, n, t, u) == ((((seed + 1) * t + 3 * u + n) % 7) - 3) * 400

\* the patterns drawn
ScoreSeeds == {0, 1}

\* _call_additive_emission: e reshaped to (batch_size, input_len, input_len)
call_additive_emission(w, shape, seed) ==
    [shape |-> <<shape[1], shape[2], shape[2]>>,
     val |-> [n \in Idx(shape[1]) |-> [t \in Idx(shape[2]) |-> [u \in Idx(shape[2]) |->
                Score(seed, n, t, u)]]]]

\* _call_multiplicative_emission: batch_dot of [bs, len, f] and [bs, f, len]
call_multiplicative_emission(w, shape, seed) ==
    [shape |-> <<shape[1], shape[2], shape[2]>>,
     val |-> [n \in Idx(shape[1]) |-> [t \in Idx(shape[2]) |-> [u \in Idx(shape[2]) |->
                Score(seed + 1, n, u, t)]]]]

\* self.attention_activation(e), for the activations drawn
activation(f, e) ==
    IF f.fn = "relu"
    THEN [shape |-> e.shape,
          val |-> [n \in Idx(e.shape[1]) |-> [i \in Idx(e.shape[2]) |->
                     [j \in Idx(e.shape[3]) |-> Max2(e.val[n][i][j], 0)]]]]
    ELSE e

\* window_lower with the history_only branch taken for the centred window
window_lower_centered(self, t) == t - (Get(self.attention_width) \div 2)

\* lower[t] of the attention window (line 242 or 244)
window_lower(self, t) ==
    IF self.history_only
    THEN t - (Get(self.attention_width) - 1)
    ELSE t - (Get(self.attention_width) \div 2)

\* 10000.0 * (1.0 - cast(lower <= indices) * cast(indices < upper)), as a
\* tensor of shape [1, input_len, input_len]
window_penalty(self, input_len) ==
    [shape |-> <<1, input_len, input_len>>,
     val |-> [n \in Idx(1) |-> [t \in Idx(input_len) |-> [u \in Idx(input_len) |->
                LET lower == window_lower(self, t)
                    upper == lower + Get(self.attention_width)
                IN  PENALTY * Scale *
                      (1 - (IF lower <= u THEN 1 ELSE 0) * (IF u < upper THEN 1 ELSE 0))]]]]

\* tf.tile(K.expand_dims(mask, 1), [1, sl, 1]): mask[n][u] in every row
tile_mask(mask, bs, input_len) ==
    [shape |-> <<bs, sl, input_len>>,
     val |-> [n \in Idx(bs) |-> [i \in Idx(sl) |-> [u \in Idx(input_len) |->
                mask[n][u]]]]]

\* 10000.0 * (1.0 - K.cast(mask, K.floatx()))
mask_penalty(m) ==
    [shape |-> m.shape,
     val |-> [n \in Idx(m.shape[1]) |-> [i \in Idx(m.shape[2]) |->
                [u \in Idx(m.shape[3]) |->
                   PENALTY * Scale * (1 - (IF m.val[n][i][u] THEN 1 ELSE 0))]]]]

\* K.max(row, axis=-1)
RowMax(row, c) == CHOOSE m \in {row[j] : j \in Idx(c)} : \A j \in Idx(c) : row[j] <= m

RECURSIVE RowSum(_, _)
\* K.sum(row, axis=-1) over the first c entries
RowSum(row, c) == IF c = 0 THEN 0 ELSE row[c - 1] + RowSum(row, c - 1)

\* K.exp(x) for x <= 0 in thousandths, in units of 2^-20: halved once per
\* ln 2 = 0.693, and 0 once it underflows.
K_exp(x) ==
    LET halvings == (-x) \div 693
    IN  IF halvings > 20 THEN 0 ELSE 2 ^ (20 - halvings)

\* softmax_num with the row maximum not subtracted
softmax_num_nomax(e) ==
    [n \in Idx(e.shape[1]) |-> [i \in Idx(e.shape[2]) |->
        [j \in Idx(e.shape[3]) |-> K_exp(e.val[n][i][j])]]]

\* the numerators K.exp(e - K.max(e, axis=-1, keepdims=True))
softmax_num(e) ==
    [n \in Idx(e.shape[1]) |-> [i \in Idx(e.shape[2]) |->
        LET m == RowMax(e.val[n][i], e.shape[3])
        IN  [j \in Idx(e.shape[3]) |-> K_exp(e.val[n][i][j] - m)]]]

\* a = e / K.sum(e, axis=-1, keepdims=True): entry [n][i][j] is the fraction
\* num[n][i][j] / den[n][i]; a den of 0 is a division by zero.
softmax(e) ==
    LET num == softmax_num(e)
    IN  [shape |-> e.shape,
         num |-> num,
         den |-> [n \in Idx(e.shape[1]) |-> [i \in Idx(e.shape[2]) |->
                    RowSum(num[n][i], e.shape[3])]]]

\* The locals of call before its first statement.
NoLocals ==
    [raised |-> "", at |-> 0, mask_in |-> None, distance_mask |-> None,
     mask |-> None, e_emit |-> None, e_window |-> None, e_mask |-> None,
     e |-> None, a |-> None, outputs |-> None, losses |-> 0]

\* The scores after the window step (lines 240-248)
apply_window(self, e, input_len) ==
    IF IsNone(self.attention_width) THEN e
    ELSE Sub(e, window_penalty(self, input_len))

\* The shapes of what call returns (lines 262-270): v = K.batch_dot(a, inputs)
\* has a's rows and the inputs' features.
call_outputs(self, a, shape) ==
    IF self.return_attention
    THEN <<(<<a.shape[1], a.shape[2], shape[3]>>), a.shape>>
    ELSE <<(<<a.shape[1], a.shape[2], shape[3]>>)>>

\* call(inputs, mask): the locals when call returns or raises.  raised names
\* the exception ("" when call returns) and at the line that raises it; a
\* local not yet assigned is None.  An elementwise operation on shapes that
\* do not broadcast raises, and so does K.batch_dot(a, inputs) when a's
\* columns are not the inputs' rows.
call(self, w, shape, mask, seed) ==
    LET bs == shape[1]
        input_len == shape[2]
        dm == distance_mask(self.attention_distance)
        start == [NoLocals EXCEPT !.mask_in = mask]
    IN  IF IsNone(dm)
        THEN [start EXCEPT !.raised = "UnboundLocalError", !.at = 227]
        ELSE
        LET dmt == Tile0(Get(dm), bs, sl, sl)
            mt == IF IsNone(mask) THEN None
                  ELSE Some(tile_mask(Get(mask), bs, input_len))
            e0 == IF self.attention_type = ATTENTION_TYPE_ADD
                  THEN call_additive_emission(w, shape, seed)
                  ELSE call_multiplicative_emission(w, shape, seed)
            e1 == activation(self.attention_activation, e0)
            e2 == apply_window(self, e1, input_len)
            s2 == [start EXCEPT !.distance_mask = Some(dmt), !.mask = mt,
                                !.e_emit = Some(e1), !.e_window = Some(e2)]
        IN  IF ~IsNone(mt) /\ ~Broadcastable(e2.shape, Get(mt).shape)
            THEN [s2 EXCEPT !.raised = "ShapeMismatch", !.at = 251]
            ELSE
            LET e3 == IF IsNone(mt) THEN e2 ELSE Sub(e2, mask_penalty(Get(mt)))
                s3 == [s2 EXCEPT !.e_mask = Some(e3)]
            IN  IF ~Broadcastable(e3.shape, dmt.shape)
                THEN [s3 EXCEPT !.raised = "ShapeMismatch", !.at = 255]
                ELSE
                LET e4 == Add(e3, dmt)
                    a == softmax(e4)
                    s4 == [s3 EXCEPT !.e = Some(e4), !.a = Some(a)]
                IN  IF a.shape[3] # input_len \/ a.shape[1] # bs
                    THEN [s4 EXCEPT !.raised = "ShapeMismatch", !.at = 262]
                    ELSE [s4 EXCEPT !.at = 270,
                                    !.losses =
                                        IF self.attention_regularizer_weight > 0
                                        THEN 1 ELSE 0,
                                    !.outputs = Some(call_outputs(self, a, shape))]

\* compute_output_shape(input_shape)
compute_output_shape(self, shape) ==
    IF self.return_attention
    THEN <<shape, (<<shape[1], shape[2], shape[2]>>)>>
    ELSE <<shape>>

\* compute_mask(inputs, mask): one mask, or the list [mask, None]
compute_mask(self, mask) ==
    IF self.return_attention THEN <<mask, None>> ELSE <<mask>>

(* ------------------------------ inputs -------------------------------- *)

AttentionTypes ==
    {ATTENTION_TYPE_ADD, ATTENTION_TYPE_MUL, PyStr("dot"), PyNone}

Widths == {None} \cup {Some(k) : k \in 1..MaxWidth}

AttentionDistances == DISTANCES \cup {"cosine"}

Activations == {None, Some("relu")}

\* The constructor's arguments drawn: every combination of the arguments of
\* the window and the distance mask, every combination of the attention
\* type, the activation, return_attention and the regularizer weight, and
\* every combination of units and the bias flags; the arguments a group
\* does not vary are at their defaults.
CtorArgs ==
    {[Defaults EXCEPT !.attention_width = wd, !.history_only = h,
                      !.attention_distance = d] :
        wd \in Widths, h \in BOOLEAN, d \in AttentionDistances}
    \cup
    {[Defaults EXCEPT !.attention_type = ty, !.attention_activation = act,
                      !.return_attention = r,
                      !.attention_regularizer_weight = rw] :
        ty \in AttentionTypes, act \in Activations, r \in BOOLEAN, rw \in {0, 1}}
    \cup
    {[Defaults EXCEPT !.units = un, !.use_additive_bias = ub,
                      !.use_attention_bias = ab, !.attention_distance = d] :
        un \in {1, 32}, ub \in BOOLEAN, ab \in BOOLEAN, d \in {"linear", "log"}}

InputLens == (1..MaxShortLen) \cup {sl}

InputShapes == {<<bs, len, 4>> : bs \in 1..MaxBatch, len \in InputLens}

\* A boolean mask of shape [bs, input_len]: pattern k masks out position u
\* of batch element n when (u + n) is a multiple of k + 1 (all of them for
\* k = 0).
MaskPattern(k, shape) ==
    [n \in Idx(shape[1]) |-> [u \in Idx(shape[2]) |-> ((u + n) % (k + 1)) # 0]]

Masks(shape) == {None} \cup {Some(MaskPattern(k, shape)) : k \in 0..MaxMaskSeed}

(* ------------------------------ actions ------------------------------- *)

Init ==
    /\ pc = "init"
    /\ ctor_args = None
    /\ layer = None
    /\ raised = ""
    /\ layer2 = None
    /\ input_shape = None
    /\ weights = NoWeights
    /\ locals = NoLocals

\* SeqDistanceSelfAttention(**args)
Construct ==
    /\ pc = "init"
    /\ \E args \in CtorArgs :
         LET r == init(args)
         IN  /\ ctor_args' = Some(args)
             /\ layer' = r.self
             /\ raised' = r.raised
             /\ pc' = IF IsNone(r.self) THEN "rejected" ELSE "constructed"
    /\ UNCHANGED <<layer2, input_shape, weights, locals>>

\* SeqDistanceSelfAttention.from_config(layer.get_config()).  The model
\* follows a layer either through this round trip or through build and
\* call: neither reads what the other writes.
FromConfig ==
    /\ pc = "constructed"
    /\ layer2 = None
    /\ layer2' = from_config(get_config(Get(layer))).self
    /\ UNCHANGED <<pc, ctor_args, layer, raised, input_shape, weights, locals>>

\* layer.build(input_shape)
Build ==
    /\ pc = "constructed"
    /\ layer2 = None
    /\ \E shape \in InputShapes :
         /\ input_shape' = Some(shape)
         /\ weights' = build(Get(layer), shape)
    /\ pc' = "built"
    /\ UNCHANGED <<ctor_args, layer, raised, layer2, locals>>

\* layer.call(inputs, mask) on inputs of the shape the layer was built for
Call ==
    /\ pc = "built"
    /\ \E mask \in Masks(Get(input_shape)), seed \in ScoreSeeds :
         locals' = call(Get(layer), weights, Get(input_shape), mask, seed)
    /\ pc' = "called"
    /\ UNCHANGED <<ctor_args, layer, raised, layer2, input_shape, weights>>

Next == Construct \/ FromConfig \/ Build \/ Call

Spec == Init /\ [][Next]_vars

(* ------------------------------ claims -------------------------------- *)

Called == pc = "called"
Self == Get(layer)
InputLen == Get(input_shape)[2]
BatchSize == Get(input_shape)[1]

\* C1: an attention_type that is neither 'additive' nor 'multiplicative'
\* makes the constructor raise NotImplementedError and leaves no layer; with
\* either of the two, construction succeeds.
C1_UnrecognizedTypeRaisesNotImplemented ==
    pc # "init" =>
        IF Get(ctor_args).attention_type \in {ATTENTION_TYPE_ADD, ATTENTION_TYPE_MUL}
        THEN raised = "" /\ ~IsNone(layer)
        ELSE raised = "NotImplementedError" /\ IsNone(layer)

\* C2: the attention weights call computes are a probability distribution for
\* every batch element and query position: each weight num/den is
\* non-negative and the weights of a row sum to 1 (the numerators sum to a
\* non-zero denominator).
C2_WeightsAreDistribution ==
    (Called /\ ~IsNone(locals.a)) =>
        LET a == Get(locals.a)
        IN  \A n \in Idx(a.shape[1]) : \A t \in Idx(a.shape[2]) :
                /\ a.den[n][t] > 0
                /\ \A u \in Idx(a.shape[3]) : a.num[n][t][u] >= 0
                /\ RowSum(a.num[n][t], a.shape[3]) = a.den[n][t]

\* C2's case: call returned attention weights, computed under a mask, and
\* some weight underflowed to 0.
C2_Witness ==
    /\ Called
    /\ locals.at = 270
    /\ Self.return_attention
    /\ ~IsNone(locals.mask_in)
    /\ \E t \in Idx(sl) : Get(locals.a).num[0][t][t] = 0

\* C3: call, compute_output_shape and compute_mask agree on the number and
\* shape of the outputs: one item (the input's shape, the input mask) when
\* return_attention is false, two ([input shape, [batch, len, len]] and
\* [mask, None]) when it is true.
C3_OutputsFollowReturnAttention ==
    Called =>
        LET shape == Get(input_shape)
            want == IF Self.return_attention
                    THEN <<shape, (<<shape[1], shape[2], shape[2]>>)>>
                    ELSE <<shape>>
        IN  /\ ~IsNone(locals.outputs)
            /\ Get(locals.outputs) = want
            /\ compute_output_shape(Self, shape) = want
            /\ compute_mask(Self, locals.mask_in) =
                   IF Self.return_attention THEN <<locals.mask_in, None>>
                   ELSE <<locals.mask_in>>

\* The penalty the window step took from the score of key u for query t.
WindowPenaltyAt(n, t, u) ==
    Get(locals.e_emit).val[n][t][u] - Get(locals.e_window).val[n][t][u]

\* C4: with history_only, for attention_width w >= 1 the window penalty of
\* 10000 falls on every key u > t and every u < t - (w - 1) and on no key
\* with t - (w - 1) <= u <= t; with attention_width None it falls on exactly
\* the keys u > t.
C4_HistoryOnlyWindow ==
    (Called /\ ~IsNone(locals.e_window) /\ Self.history_only) =>
        LET wd == Get(ctor_args).attention_width
        IN  \A n \in Idx(BatchSize) : \A t \in Idx(InputLen) : \A u \in Idx(InputLen) :
                WindowPenaltyAt(n, t, u) =
                    IF u > t \/ (~IsNone(wd) /\ u < t - (Get(wd) - 1))
                    THEN PENALTY * Scale ELSE 0

\* C4's case: history_only with a width of 2 on an input long enough to have
\* keys on both sides of the window.
C4_Witness ==
    /\ Called
    /\ ~IsNone(locals.e_window)
    /\ Self.history_only
    /\ Get(ctor_args).attention_width = Some(2)
    /\ InputLen >= 3

\* C5: the distance bias call builds is a [len, len] matrix per batch element
\* for the input's own sequence length len.
C5_DistanceMaskHasInputLength ==
    (Called /\ ~IsNone(locals.distance_mask)) =>
        Get(locals.distance_mask).shape = <<BatchSize, InputLen, InputLen>>

\* C6: the distance bias is a penalty that depends on the distance only: every
\* entry is <= 0, entry [i][j] is the entry for any pair at distance |i-j| (so
\* it equals entry [j][i]), it is -10000 exactly when i = j, 'linear' gives
\* -|i-j| off the diagonal, 'mydistance' gives 0 at distance 1 and -|i-j|
\* beyond.
C6_DistanceBias ==
    (Called /\ ~IsNone(locals.distance_mask)) =>
        LET dm == Get(locals.distance_mask)
            dist == Self.attention_distance
        IN  \A n \in Idx(dm.shape[1]) : \A i \in Idx(dm.shape[2]) :
            \A j \in Idx(dm.shape[3]) :
                LET d == dm.val[n][i][j]
                IN  /\ d <= 0
                    /\ d = dm.val[n][0][Abs(i - j)]
                    /\ d = dm.val[n][j][i]
                    /\ (d = -(PENALTY * Scale)) <=> (i = j)
                    /\ (dist = "linear" /\ i # j) => d = -(Abs(i - j) * Scale)
                    /\ (dist = "mydistance" /\ Abs(i - j) = 1) => d = 0
                    /\ (dist = "mydistance" /\ Abs(i - j) > 1) =>
                           d = -(Abs(i - j) * Scale)

\* C6's case: call built the distance mask of 'mydistance'.
C6_Witness ==
    /\ Called
    /\ ~IsNone(locals.distance_mask)
    /\ Self.attention_distance = "mydistance"

\* C7: once call reaches its mask step with a mask, the score of every key u
\* whose mask entry is false is lowered by 10000, for every batch element and
\* query, and that of a key whose entry is true is unchanged; without a mask
\* no score changes.
C7_MaskLowersMaskedKeys ==
    (Called /\ ~IsNone(locals.e_window)) =>
        /\ ~IsNone(locals.e_mask)
        /\ \A n \in Idx(BatchSize) : \A t \in Idx(InputLen) : \A u \in Idx(InputLen) :
               Get(locals.e_window).val[n][t][u] - Get(locals.e_mask).val[n][t][u] =
                   IF ~IsNone(locals.mask_in) /\ ~Get(locals.mask_in)[n][u]
                   THEN PENALTY * Scale ELSE 0

\* C8: the layer built from get_config() has the original's value of every
\* constructor hyperparameter.
C8_ConfigRoundTrip ==
    ~IsNone(layer2) =>
        LET a == Get(layer)
            b == Get(layer2)
        IN  /\ b.units = a.units
            /\ b.attention_width = a.attention_width
            /\ b.attention_type = a.attention_type
            /\ b.return_attention = a.return_attention
            /\ b.history_only = a.history_only
            /\ b.use_additive_bias = a.use_additive_bias
            /\ b.use_attention_bias = a.use_attention_bias
            /\ b.attention_activation = a.attention_activation
            /\ b.attention_distance = a.attention_distance
            /\ b.attention_regularizer_weight = a.attention_regularizer_weight

\* C9: a layer the constructor accepted can be called: on an input of the
\* length call builds its distance mask for, call has a distance mask and
\* reaches the normalization without raising.
C9_AcceptedLayerCanBeCalled ==
    (Called /\ InputLen = sl) =>
        /\ ~IsNone(locals.distance_mask)
        /\ ~IsNone(locals.a)
        /\ locals.raised = ""

\* The total penalty on the score of key u for query t: the window penalty,
\* the mask penalty and the magnitude of the distance bias.
TotalPenalty(n, t, u) ==
    Get(locals.e_emit).val[n][t][u] - Get(locals.e).val[n][t][u]

\* Key u is outside query t's window, or masked out.
Excluded(n, t, u) ==
    \/ /\ ~IsNone(Self.attention_width)
       /\ ~(window_lower(Self, t) <= u
            /\ u < window_lower(Self, t) + Get(Self.attention_width))
    \/ /\ ~IsNone(locals.mask_in)
       /\ ~Get(locals.mask_in)[n][u]

\* C10: for every query, each key outside the window or masked out carries a
\* total penalty strictly greater than each key inside the window and not
\* masked, the query position itself included.
C10_ExcludedRankBelowPermitted ==
    (Called /\ locals.at = 270) =>
        \A n \in Idx(BatchSize) : \A t \in Idx(InputLen) :
        \A u \in Idx(InputLen) : \A v \in Idx(InputLen) :
            (Excluded(n, t, u) /\ ~Excluded(n, t, v)) =>
                TotalPenalty(n, t, u) > TotalPenalty(n, t, v)

====
